---- MODULE Spec2Model ----
(***************************************************************************)
(* A model of compareRootTrees.py: the driver that opens two ROOT files,   *)
(* walks the branches of the first tree, compares every branch or leaf     *)
(* with do_comparison_plot and exits with the aggregate verdict.           *)
(*                                                                         *)
(* Python strings are modelled as sequences of one-character strings, so   *)
(* that str.replace, str.startswith, os.path.basename and os.path.join are *)
(* computed, character by character, the way Python computes them.         *)
(* The contents of the two trees are the environment: the value sequence   *)
(* of a branch is drawn when the branch is read (each branch is read once  *)
(* per run), and so is the result of every lookup in the second tree.      *)
(***************************************************************************)
EXTENDS Integers, Sequences, FiniteSets, TLC

\* ------------------------------------------------------------------ bounds

\* Largest number of entries a branch holds in either tree.
MaxEntries == 1

\* Largest number of top-level branches of the first tree.
MaxBranches == 2

\* The values an entry can take.
Values == {1, 2}

\* ----------------------------------------------------------- string helpers

RECURSIVE replace(_, _, _)
\* str.replace(old, new): every non-overlapping occurrence of old, scanning
\* from the left, is replaced by new.
replace(s, old, new) ==
  IF old = << >>
    THEN IF s = << >> THEN new
         ELSE new \o << Head(s) >> \o replace(Tail(s), old, new)
  ELSE IF Len(s) < Len(old) THEN s
  ELSE IF SubSeq(s, 1, Len(old)) = old
    THEN new \o replace(SubSeq(s, Len(old) + 1, Len(s)), old, new)
  ELSE << Head(s) >> \o replace(Tail(s), old, new)

\* leaf_type == "map": the prefix test taken for an equality test.
startswith_equal(s, prefix) == s = prefix

\* str.startswith(prefix)
startswith(s, prefix) ==
  /\ Len(s) >= Len(prefix)
  /\ SubSeq(s, 1, Len(prefix)) = prefix

\* Index of the last "/" of p, 0 if there is none.
LastSep(p) ==
  LET seps == {k \in 1..Len(p) : p[k] = "/"}
  IN  IF seps = {} THEN 0 ELSE CHOOSE k \in seps : \A m \in seps : m <= k

\* os.path.basename(p): what follows the last "/".
basename(p) == SubSeq(p, LastSep(p) + 1, Len(p))

\* os.path.join(a, b) for two components.
join2(a, b) ==
  IF b # << >> /\ b[1] = "/" THEN b
  ELSE IF a = << >> \/ a[Len(a)] = "/" THEN a \o b
  ELSE a \o << "/" >> \o b

\* os.path.join(a, b, c)
join(a, b, c) == join2(join2(a, b), c)

\* ------------------------------------------------------- program constants

default_fmt == << "p", "d", "f" >>

\* "_compare.%s" % args.outputFmt
CompareSuffix == << "_", "c", "o", "m", "p", "a", "r", "e", "." >> \o default_fmt

DIFF == << "D", "I", "F", "F", "_" >>

MapPrefix == << "m", "a", "p" >>

Dot == << "." >>

Underscore == << "_" >>

\* --------------------------------------------------------- the two trees

\* The value sequences a branch can hold.
Data == UNION {[1..n -> Values] : n \in 0..MaxEntries}

\* What TFile.Open and TFile.Get can hand back.
HandleStates == {"valid", "zombie", "null"}

\* --outputDir
OutputDirs ==
  { << "p", "l", "o", "t", "s" >>,
    << "x" >> \o CompareSuffix }

BranchX == << "x" >>

BranchY == << "y" >>

BranchJet == << "j", "e", "t" >>

\* The names of the top-level branches a tree can have.
BranchNames == {BranchX, BranchY, BranchJet}

\* T1.GetListOfBranches(): the branches of the first tree, in declared order.
BranchLists ==
  {l \in UNION {[1..n -> BranchNames] : n \in 0..MaxBranches} :
     \A a, b \in 1..Len(l) : a # b => l[a] # l[b]}

\* branch1.GetListOfBranches(): the sub-branches of a branch of the first tree.
\* x and y are plain leaves; jet is split into two sub-branches, the first
\* of a map type.
GetListOfBranches(branch_name) ==
  IF branch_name = BranchJet
    THEN << [name |-> BranchJet \o << ".", "m" >>,
             type |-> MapPrefix \o << "<", "i", "n", "t", ",", "i", "n", "t", ">" >>],
            [name |-> BranchJet \o << ".", "s", "u", "b", "j", "e", "t", ".", "p", "t" >>,
             type |-> << "v", "e", "c", "t", "o", "r", "<", "f", "l", "o", "a", "t", ">" >>] >>
    ELSE << >>

\* What the second tree can hold for a branch of the first: the same
\* sub-branches, the last one under another name, or one sub-branch fewer.
Leaves2Options(leaves1) ==
  IF leaves1 = << >> THEN { << >> }
  ELSE LET n == Len(leaves1)
       IN  { leaves1,
             [leaves1 EXCEPT ![n].name = @ \o << "2" >>],
             SubSeq(leaves1, 1, n - 1) }

\* T2.GetBranch(branch_name): None, or the branch of the second tree.
GetBranch(branch_name) ==
  { [isNone |-> TRUE, leaves |-> << >>] } \cup
  { [isNone |-> FALSE, leaves |-> l] : l \in Leaves2Options(GetListOfBranches(branch_name)) }

\* The test of the lookup result left out: no branch is taken for missing.
IsNone_never(branch2) == FALSE

\* branch2 is None
IsNone(branch2) == branch2.isNone

\* ------------------------------------------------------------ the histogram

\* TH1.GetEntries(): the number of values filled.
GetEntries(h) == Len(h)

RECURSIVE Sum(_)
Sum(h) == IF h = << >> THEN 0 ELSE Head(h) + Sum(Tail(h))

RECURSIVE GCD(_, _)
GCD(a, b) == IF b = 0 THEN a ELSE GCD(b, a % b)

\* TH1.GetMean(): sum of the values over their number, 0 for an empty
\* histogram; kept as a fraction in lowest terms.
GetMean(h) ==
  IF Len(h) = 0 THEN << 0, 1 >>
  ELSE LET g == GCD(Sum(h), Len(h))
       IN  << Sum(h) \div g, Len(h) \div g >>

\* The early-return test with its second comparison inverted.
BothEmpty_inverted(h1, h2) == GetEntries(h1) = 0 /\ GetEntries(h2) # 0

\* h1.GetEntries() == 0 and h2.GetEntries() == 0
BothEmpty(h1, h2) == GetEntries(h1) = 0 /\ GetEntries(h2) = 0

\* The diff check with the entries comparison inverted (== for !=).
DiffCheck_inverted(print_warning, h1, h2) ==
  /\ print_warning
  /\ GetEntries(h1) > 0 \/ GetEntries(h2) > 0
  /\ \/ GetEntries(h1) = GetEntries(h2)
     \/ GetMean(h1) # GetMean(h2)

\* is_diff after the "simple check to see if hists differ".
DiffCheck(print_warning, h1, h2) ==
  /\ print_warning
  /\ GetEntries(h1) > 0 \/ GetEntries(h2) > 0
  /\ \/ GetEntries(h1) # GetEntries(h2)
     \/ GetMean(h1) # GetMean(h2)

\* The number of "has differing ..." lines the check prints.
Notices(print_warning, h1, h2) ==
  IF print_warning /\ (GetEntries(h1) > 0 \/ GetEntries(h2) > 0)
    THEN (IF GetEntries(h1) # GetEntries(h2) THEN 1 ELSE 0)
         + (IF GetMean(h1) # GetMean(h2) THEN 1 ELSE 0)
    ELSE 0

\* The name the canvas is saved under.
SaveName(is_diff, output_name) ==
  IF is_diff
    THEN replace(output_name, basename(output_name), DIFF \o basename(output_name))
    ELSE output_name

\* do_comparison_plot(T1, T2, name, output_name, print_warning), h1 and h2
\* being the values of name in T1 and in T2: the value returned ("None" for
\* the bare return), the names passed to c.SaveAs, the lines printed.
do_comparison_plot(h1, h2, name, output_name, print_warning) ==
  IF BothEmpty(h1, h2)
    THEN [is_diff |-> "None", saved |-> << >>, notices |-> 0]
    ELSE LET is_diff == DiffCheck(print_warning, h1, h2)
         IN  [is_diff |-> IF is_diff THEN "True" ELSE "False",
              saved   |-> << SaveName(is_diff, output_name) >>,
              notices |-> Notices(print_warning, h1, h2)]

\* check_tobj(tobj): the ways the call can end. A zombie raises IOError; for
\* a null handle the message is built from tobj.GetName(), and it is that
\* access of the null handle that raises.
check_tobj(tobj) ==
  IF tobj = "valid" THEN {"ok"}
  ELSE IF tobj = "zombie" THEN {"IOError"}
  ELSE {"AttributeError", "ReferenceError"}

\* results[key] = value on an OrderedDict kept as a sequence of pairs.
SetItem(d, key, value) ==
  IF \E k \in 1..Len(d) : d[k][1] = key
    THEN [k \in 1..Len(d) |-> IF d[k][1] = key THEN << key, value >> ELSE d[k]]
    ELSE Append(d, << key, value >>)

\* any(results.values())
AnyResult(d) == \E k \in 1..Len(d) : d[k][2] = "True"

\* The display path of a leaf: var_name.replace(branch_name+".", "").replace(".", "_")
parts(var_name, branch_name) ==
  replace(replace(var_name, branch_name \o Dot, << >>), Dot, Underscore)

\* ---------------------------------------------------------------- the state

VARIABLES
  pc,          \* where the script is
  verbose,     \* args.verbose
  outputDir,   \* args.outputDir
  f1, f2,      \* what TFile.Open returned
  T1, T2,      \* what f.Get(args.treeName) returned
  br_list1,    \* the branches of T1
  i,           \* the index of the branch loop
  leaves1,     \* the sub-branches of the current branch in T1
  leaves2,     \* the sub-branches of the current branch in T2
  j,           \* the index of the leaf loop
  results,     \* the OrderedDict of results
  dirs,        \* the directories gSystem.mkdir was called for
  saved,       \* the file names c.SaveAs was called with
  stdout,      \* the lines printed, as << kind, name >>
  closed,      \* how many times f1.Close() and f2.Close() ran
  exitCode,    \* the exit status of the process, -1 while it runs
  error,       \* the exception that ended the run, "none" if none
  last,        \* the last call of do_comparison_plot and what it returned
  compared,    \* the names do_comparison_plot was called for
  differing,   \* the compared names whose entries or means differ in T1 and T2
  empty,       \* the compared names without entries in T1 and in T2
  missing      \* the branches of T1 that T2.GetBranch returned None for

vars == << pc, verbose, outputDir, f1, f2, T1, T2, br_list1, i, leaves1, leaves2,
           j, results, dirs, saved, stdout, closed, exitCode, error, last,
           compared, differing, empty, missing >>

\* Whether the values of a field differ in entry count or in mean.
Differ(h1, h2) == Len(h1) # Len(h2) \/ Sum(h1) * Len(h2) # Sum(h2) * Len(h1)

NoCall ==
  [kind |-> "none", branch_name |-> << >>, name |-> << >>, h1 |-> << >>, h2 |-> << >>,
   output_name |-> << >>, print_warning |-> FALSE, is_diff |-> "None",
   saved |-> << >>, notices |-> 0]

Init ==
  /\ pc = "open"
  /\ verbose \in BOOLEAN
  /\ outputDir \in OutputDirs
  /\ f1 = "unopened" /\ f2 = "unopened"
  /\ T1 = "unopened" /\ T2 = "unopened"
  /\ br_list1 = << >>
  /\ i = 0 /\ j = 0
  /\ leaves1 = << >> /\ leaves2 = << >>
  /\ results = << >>
  /\ dirs = {} /\ saved = {}
  /\ stdout = << >>
  /\ closed = [f1 |-> 0, f2 |-> 0]
  /\ exitCode = -1
  /\ error = "none"
  /\ last = NoCall
  /\ compared = {} /\ differing = {} /\ empty = {} /\ missing = {}

\* An uncaught exception: the traceback is printed and the process exits
\* with status 1; nothing else of the script runs.
Raise(e) ==
  /\ pc' = "aborted"
  /\ error' = e
  /\ exitCode' = 1

\* f1 = ROOT.TFile.Open(args.filename1); f2 = ROOT.TFile.Open(args.filename2)
OpenFiles ==
  /\ pc = "open"
  /\ f1' \in HandleStates
  /\ f2' \in HandleStates
  /\ pc' = "check_f1"
  /\ UNCHANGED << verbose, outputDir, T1, T2, br_list1, i, leaves1, leaves2, j,
                  results, dirs, saved, stdout, closed, exitCode, error, last,
                  compared, differing, empty, missing >>

\* check_tobj(tobj) at one of its four call sites.
Check(at, tobj, next) ==
  /\ pc = at
  /\ \E r \in check_tobj(tobj) :
       IF r = "ok"
         THEN pc' = next /\ UNCHANGED << error, exitCode >>
         ELSE Raise(r)
  /\ UNCHANGED << verbose, outputDir, f1, f2, T1, T2, br_list1, i, leaves1, leaves2,
                  j, results, dirs, saved, stdout, closed, last, compared,
                  differing, empty, missing >>

CheckF1 == Check("check_f1", f1, "check_f2")

CheckF2 == Check("check_f2", f2, "get_trees")

\* T1 = f1.Get(args.treeName); T2 = f2.Get(args.treeName)
GetTrees ==
  /\ pc = "get_trees"
  /\ T1' \in HandleStates
  /\ T2' \in HandleStates
  /\ pc' = "check_T1"
  /\ UNCHANGED << verbose, outputDir, f1, f2, br_list1, i, leaves1, leaves2, j,
                  results, dirs, saved, stdout, closed, exitCode, error, last,
                  compared, differing, empty, missing >>

CheckT1 == Check("check_T1", T1, "check_T2")

CheckT2 == Check("check_T2", T2, "setup")

\* br_list1, the empty results, "Plots produced in" and the output directory.
Setup ==
  /\ pc = "setup"
  /\ br_list1' \in BranchLists
  /\ results' = << >>
  /\ stdout' = Append(stdout, << "Plots produced in", outputDir >>)
  /\ dirs' = dirs \cup {outputDir}
  /\ i' = 0
  /\ pc' = "loop"
  /\ UNCHANGED << verbose, outputDir, f1, f2, T1, T2, leaves1, leaves2, j, saved,
                  closed, exitCode, error, last, compared, differing, empty, missing >>

\* stdout after the "BRANCH i : name" line of verbose runs.
BranchLine(branch_name) ==
  IF verbose THEN Append(stdout, << "BRANCH", branch_name >>) ELSE stdout

\* One pass of the branch loop for a branch that T2 does not have.
SkipBranch ==
  /\ pc = "loop" /\ i < Len(br_list1)
  /\ LET branch_name == br_list1[i + 1]
     IN  \E branch2 \in GetBranch(branch_name) :
           /\ IsNone(branch2)
           /\ stdout' = Append(BranchLine(branch_name),
                               << "WARNING Tree2 doesn't have branch", branch_name >>)
           /\ missing' = IF branch2.isNone THEN missing \cup {branch_name} ELSE missing
  /\ i' = i + 1
  /\ UNCHANGED << pc, verbose, outputDir, f1, f2, T1, T2, br_list1, leaves1, leaves2,
                  j, results, dirs, saved, closed, exitCode, error, last,
                  compared, differing, empty >>

\* leaves2 = branch2.GetListOfBranches() where branch2 is None: the call raises.
NoneBranch(branch_name) ==
  /\ missing' = missing \cup {branch_name}
  /\ Raise("AttributeError")

\* The state after one call of do_comparison_plot and results[name] = is_diff.
Compare(kind, branch_name, name, output_name, print_warning) ==
  \E h1, h2 \in Data :
    LET r == do_comparison_plot(h1, h2, name, output_name, print_warning)
    IN  /\ results' = SetItem(results, name, r.is_diff)
        /\ saved' = saved \cup {r.saved[k] : k \in 1..Len(r.saved)}
        /\ last' = [kind |-> kind, branch_name |-> branch_name, name |-> name,
                    h1 |-> h1, h2 |-> h2, output_name |-> output_name,
                    print_warning |-> print_warning, is_diff |-> r.is_diff,
                    saved |-> r.saved, notices |-> r.notices]
        /\ compared' = compared \cup {name}
        /\ differing' = IF Differ(h1, h2) THEN differing \cup {name} ELSE differing
        /\ empty' = IF h1 = << >> /\ h2 = << >> THEN empty \cup {name} ELSE empty

\* One pass of the branch loop for a branch without sub-branches.
CompareBranch ==
  /\ pc = "loop" /\ i < Len(br_list1)
  /\ LET branch_name == br_list1[i + 1]
     IN  /\ GetListOfBranches(branch_name) = << >>
         /\ stdout' = BranchLine(branch_name)
         /\ dirs' = dirs \cup {join2(outputDir, branch_name)}
         /\ \E branch2 \in GetBranch(branch_name) :
              /\ ~IsNone(branch2)
              /\ IF branch2.isNone
                   THEN /\ NoneBranch(branch_name)
                        /\ UNCHANGED << i, results, saved, last, compared, differing,
                                        empty >>
                   ELSE /\ Compare("branch", branch_name, branch_name,
                                   join(outputDir, branch_name,
                                        branch_name \o CompareSuffix),
                                   TRUE)
                        /\ i' = i + 1
                        /\ UNCHANGED << pc, exitCode, error, missing >>
  /\ UNCHANGED << verbose, outputDir, f1, f2, T1, T2, br_list1, leaves1, leaves2,
                  j, closed >>

\* One pass of the branch loop for a branch with sub-branches, up to the
\* start of the leaf loop.
EnterBranch ==
  /\ pc = "loop" /\ i < Len(br_list1)
  /\ LET branch_name == br_list1[i + 1]
     IN  /\ GetListOfBranches(branch_name) # << >>
         /\ stdout' = BranchLine(branch_name)
         /\ dirs' = dirs \cup {join2(outputDir, branch_name)}
         /\ \E branch2 \in GetBranch(branch_name) :
              /\ ~IsNone(branch2)
              /\ IF branch2.isNone
                   THEN /\ NoneBranch(branch_name)
                        /\ UNCHANGED << leaves1, leaves2, j >>
                   ELSE /\ leaves1' = GetListOfBranches(branch_name)
                        /\ leaves2' = branch2.leaves
                        /\ j' = 0
                        /\ pc' = "leaves"
                        /\ UNCHANGED << exitCode, error, missing >>
  /\ UNCHANGED << verbose, outputDir, f1, f2, T1, T2, br_list1, i, results, saved,
                  closed, last, compared, differing, empty >>

\* The end of one pass of the leaf loop: the next leaf, or the next branch.
NextLeaf ==
  IF j + 1 < Len(leaves1)
    THEN j' = j + 1 /\ UNCHANGED << pc, i >>
    ELSE pc' = "loop" /\ i' = i + 1 /\ UNCHANGED j

\* One pass of the leaf loop for a leaf of a map type.
SkipLeaf ==
  /\ pc = "leaves" /\ j < Len(leaves1)
  /\ startswith(leaves1[j + 1].type, MapPrefix)
  /\ NextLeaf
  /\ UNCHANGED << verbose, outputDir, f1, f2, T1, T2, br_list1, leaves1, leaves2,
                  results, dirs, saved, stdout, closed, exitCode, error, last,
                  compared, differing, empty, missing >>

\* One pass of the leaf loop where leaves2.At(j) is null: leaf2.GetName() raises.
LeafError ==
  /\ pc = "leaves" /\ j < Len(leaves1)
  /\ ~startswith(leaves1[j + 1].type, MapPrefix)
  /\ j >= Len(leaves2)
  /\ \E e \in check_tobj("null") : Raise(e)
  /\ UNCHANGED << verbose, outputDir, f1, f2, T1, T2, br_list1, i, leaves1, leaves2,
                  j, results, dirs, saved, stdout, closed, last, compared,
                  differing, empty, missing >>

\* One pass of the leaf loop for a leaf that is compared.
CompareLeaf ==
  /\ pc = "leaves" /\ j < Len(leaves1)
  /\ ~startswith(leaves1[j + 1].type, MapPrefix)
  /\ j < Len(leaves2)
  /\ LET branch_name == br_list1[i + 1]
         var_name == leaves1[j + 1].name
     IN  /\ stdout' = IF var_name # leaves2[j + 1].name
                        THEN Append(stdout, << "WARNING diff leaf names", var_name >>)
                        ELSE stdout
         /\ Compare("leaf", branch_name, var_name,
                    join(outputDir, branch_name,
                         parts(var_name, branch_name) \o CompareSuffix),
                    verbose)
  /\ NextLeaf
  /\ UNCHANGED << verbose, outputDir, f1, f2, T1, T2, br_list1, leaves1, leaves2,
                  dirs, closed, exitCode, error, missing >>

\* f1.Close(); f2.Close()
CloseFiles ==
  /\ pc = "loop" /\ i >= Len(br_list1)
  /\ closed' = [f1 |-> closed.f1 + 1, f2 |-> closed.f2 + 1]
  /\ pc' = "verdict"
  /\ UNCHANGED << verbose, outputDir, f1, f2, T1, T2, br_list1, i, leaves1, leaves2,
                  j, results, dirs, saved, stdout, exitCode, error, last,
                  compared, differing, empty, missing >>

\* The verdict and sys.exit.
Verdict ==
  /\ pc = "verdict"
  /\ IF AnyResult(results)
       THEN /\ stdout' = Append(stdout,
                           << IF verbose THEN "Differing vars:"
                                         ELSE "Not all distributions same", << >> >>)
            /\ exitCode' = 1
       ELSE /\ stdout' = Append(stdout, << "All distributions same", << >> >>)
            /\ exitCode' = 0
  /\ pc' = "done"
  /\ UNCHANGED << verbose, outputDir, f1, f2, T1, T2, br_list1, i, leaves1, leaves2,
                  j, results, dirs, saved, closed, error, last, compared,
                  differing, empty, missing >>

Next ==
  \/ OpenFiles
  \/ CheckF1
  \/ CheckF2
  \/ GetTrees
  \/ CheckT1
  \/ CheckT2
  \/ Setup
  \/ SkipBranch
  \/ CompareBranch
  \/ EnterBranch
  \/ SkipLeaf
  \/ LeafError
  \/ CompareLeaf
  \/ CloseFiles
  \/ Verdict

Spec == Init /\ [][Next]_vars

\* ------------------------------------------------------ vocabulary of the claims

\* The names the results mapping has an entry for.
Keys(d) == {d[k][1] : k \in 1..Len(d)}

\* The value the results mapping holds for a name it has an entry for.
Lookup(d, key) == d[CHOOSE k \in 1..Len(d) : d[k][1] = key][2]

\* A declared type name that begins with the three letters m, a, p.
IsMapType(t) == Len(t) >= 3 /\ t[1] = "m" /\ t[2] = "a" /\ t[3] = "p"

\* The directory part of a path, up to and including its last "/".
DirPart(p) == SubSeq(p, 1, LastSep(p))

\* A name with one leading occurrence of a prefix taken off.
StripLeading(s, prefix) ==
  IF Len(s) >= Len(prefix) /\ SubSeq(s, 1, Len(prefix)) = prefix
    THEN SubSeq(s, Len(prefix) + 1, Len(s))
    ELSE s

\* The script has ended, by sys.exit or by an uncaught exception.
Ended == pc \in {"done", "aborted"}

\* A call of do_comparison_plot has been made.
Called == last.kind # "none"

\* The process exits 1 exactly if some compared branch or leaf differs.
ExitCodeTellsDifference ==
  pc = "done" => /\ exitCode = 1 <=> differing # {}
                 /\ exitCode = 0 <=> differing = {}

\* C1: on every run that reaches the verdict, with or without --verbose, the
\* exit code is 0 if every compared branch or leaf has the same entry count
\* and mean in both trees, and 1 if one of them differs in either.
C1_ExitCodeReflectsEveryDifference == ExitCodeTellsDifference

\* C2: a compared branch or leaf that has entries in at least one tree and
\* differs in entry count, or in mean at equal entry counts, is reported
\* is_different = true.
C2_DifferingFieldIsFlagged ==
  (Called /\ (last.h1 # << >> \/ last.h2 # << >>) /\ Differ(last.h1, last.h2))
    => last.is_diff = "True"

\* C3: a branch or leaf with identical, non-empty value sequences in both
\* trees gets is_different = false, and its plot is saved under the output
\* name as given, without a DIFF_ prefix.
C3_IdenticalDataNotFlagged ==
  (Called /\ last.h1 = last.h2 /\ last.h1 # << >>)
    => /\ last.is_diff = "False"
       /\ last.saved = << last.output_name >>
       /\ last.output_name \in saved
       /\ Lookup(results, last.name) = "False"
       /\ SubSeq(basename(last.saved[1]), 1, Len(DIFF)) # DIFF

\* A leaf compared under --verbose with the same non-empty values in both trees.
C3_Witness ==
  /\ last.kind = "leaf" /\ last.print_warning
  /\ last.h1 = last.h2 /\ last.h1 # << >>

\* C4, as stated: a branch or leaf without entries in both trees yields no
\* result, no plot is saved for it, and the results mapping has no entry for it.
C4_EmptyFieldAbsentFromResults ==
  /\ (Called /\ last.h1 = << >> /\ last.h2 = << >>)
       => last.is_diff = "None" /\ last.saved = << >>
  /\ empty \cap Keys(results) = {}

\* C4, amended: a branch or leaf without entries in both trees yields no
\* result and no plot is saved for it; the results mapping holds None for
\* it, which is neither true nor false, so that it is never a differing
\* variable and the exit code is 1 only for a differing non-empty one.
C4_EmptyFieldHasNoneResult ==
  /\ (Called /\ last.h1 = << >> /\ last.h2 = << >>)
       => last.is_diff = "None" /\ last.saved = << >>
  /\ \A n \in empty : n \in Keys(results) /\ Lookup(results, n) = "None"
  /\ Cardinality(saved) <= Cardinality(compared \ empty)
  /\ (pc = "done" /\ exitCode = 1)
       => \E n \in Keys(results) \ empty : Lookup(results, n) = "True"

\* A run that ended after comparing a branch empty in both trees and a
\* differing one.
C4_Witness ==
  /\ pc = "done" /\ exitCode = 1
  /\ empty # {}
  /\ last.h1 = << >> /\ last.h2 = << >>

\* The WARNING lines printed for a branch that T2 lacks.
MissingWarnings(b) ==
  {k \in 1..Len(stdout) : stdout[k] = << "WARNING Tree2 doesn't have branch", b >>}

MapLeaves(b) ==
  {GetListOfBranches(b)[k].name : k \in {m \in 1..Len(GetListOfBranches(b)) :
                                        IsMapType(GetListOfBranches(b)[m].type)}}

OtherLeaves(b) ==
  {GetListOfBranches(b)[k].name : k \in {m \in 1..Len(GetListOfBranches(b)) :
                                        ~IsMapType(GetListOfBranches(b)[m].type)}}

\* C6: a leaf whose declared type name starts with "map" is always skipped:
\* do_comparison_plot is never called for it, no file is saved for it, the
\* results have no entry for it, it is never counted as a difference; the
\* other leaves of its branch are still processed.
C6_MapLeafSkipped ==
  \A b \in BranchNames :
    /\ \A n \in MapLeaves(b) :
         /\ n \notin compared
         /\ n \notin Keys(results)
         /\ n \notin differing
         /\ last.name # n
         /\ \A p \in saved :
              basename(p) \notin {parts(n, b) \o CompareSuffix,
                                  DIFF \o parts(n, b) \o CompareSuffix}
    /\ \A k \in 1..Len(br_list1) :
         (br_list1[k] = b /\ b \notin missing /\ i >= k /\ pc # "aborted")
           => OtherLeaves(b) \subseteq compared

\* A run that went past a map leaf and compared the leaf after it.
C6_Witness ==
  /\ \E b \in BranchNames : MapLeaves(b) # {} /\ b \notin missing
                            /\ \E k \in 1..Len(br_list1) : br_list1[k] = b /\ i >= k
  /\ last.kind = "leaf"
  /\ pc = "done"

\* C7: every file that was opened is closed exactly once by the time the
\* process ends, whichever way it ends.
C7_OpenedFilesClosedOnce ==
  Ended => /\ f1 = "valid" => closed.f1 = 1
           /\ f2 = "valid" => closed.f2 = 1

\* C8: when a file handle or a tree is null or a zombie, the run ends with
\* the IOError of check_tobj, before the output directory is made, before
\* anything is compared and before anything is printed.
C8_BadHandleRaisesIOError ==
  (Ended /\ {f1, f2, T1, T2} \cap {"zombie", "null"} # {})
    => /\ error = "IOError"
       /\ dirs = {} /\ compared = {} /\ saved = {} /\ stdout = << >>

\* C9: when is_different is true the plot is saved under the output name
\* with DIFF_ put once, right before the base file name, the directories of
\* the path being unchanged.
C9_DiffPrefixOnBasenameOnly ==
  (Called /\ last.is_diff = "True")
    => last.saved = << DirPart(last.output_name) \o DIFF \o basename(last.output_name) >>

\* C10: the file a compared leaf is plotted to is named by the leaf's name
\* with the leading "<branch name>." taken off, once, and every "." left
\* turned into "_".
C10_DisplayPathStripsLeadingPrefix ==
  (last.kind = "leaf" /\ last.is_diff = "False")
    => last.saved =
         << join(outputDir, last.branch_name,
                 replace(StripLeading(last.name, last.branch_name \o Dot), Dot, Underscore)
                   \o CompareSuffix) >>

====
